---- MODULE Spec2Model ----
(***************************************************************************)
(* Model of IgnitionFileDriver (AssetModelUpdater/drivers/                 *)
(* ignitionFileDriver.py): the merge of birth payloads, the type registry, *)
(* the placeholder models, the asset-tree walk and the conditional writes  *)
(* to the two DynamoDB tables.                                             *)
(*                                                                         *)
(* Python values are rendered as follows.  A str is a TLA+ string (TLC     *)
(* evaluates Len, SubSeq and \o on strings, so paths and templates are     *)
(* computed character by character).  A dict that the code only looks up   *)
(* is a function; a dict whose values() order reaches the tables           *)
(* (normalizedModels, normalizedAssets) is a sequence of [key, val]        *)
(* entries in insertion order.  A tag node is a record whose DOMAIN is the *)
(* set of keys of the node.  The values of a birth payload are tagged with *)
(* their Python type (t = "dict", "list", "str") because updateDict tests  *)
(* isinstance(value, Mapping).  Python's None is the string "None".        *)
(***************************************************************************)
EXTENDS Integers, Sequences, FiniteSets, TLC

(***************************************************************************)
(* Bounds of the model.                                                    *)
(***************************************************************************)
MaxNodes == 3          \* nodes in an enumerated asset forest
MaxRuns == 2           \* deliveries of the same batch (SpecRedelivery)

(***************************************************************************)
(* Program constants (IgnitionFileDriver.__init__).                        *)
(***************************************************************************)
hierarchyMaxDepth == 10

tagAliasPrefix == "/Tag Providers/default"

unsupportedDataTypes == {"Template"}

tagBlacklist == {"Sim Controls"}

dataTypeTable ==
  [Int4 |-> "INTEGER", Int8 |-> "INTEGER", Int16 |-> "INTEGER",
   Int32 |-> "INTEGER", Int64 |-> "INTEGER", Float4 |-> "DOUBLE",
   Double |-> "DOUBLE", Boolean |-> "BOOLEAN", String |-> "STRING",
   DateTime |-> "INTEGER"]

\* dict.get(key) of dataTypeTable: None for a type that is not in the table
DataTypeGet(dataType) ==
  IF dataType \in DOMAIN dataTypeTable THEN dataTypeTable[dataType] ELSE "None"

(***************************************************************************)
(* Strings.                                                                *)
(***************************************************************************)
Char(s, i) == SubSeq(s, i, i)

\* the least index >= from at which character c stands in s, 0 if none
IndexFrom(s, c, from) ==
  LET hits == {i \in from..Len(s) : Char(s, i) = c}
  IN  IF hits = {} THEN 0 ELSE CHOOSE i \in hits : \A j \in hits : i <= j

Contains(s, c) == IndexFrom(s, c, 1) # 0

\* Results of the operations that can raise: err = "None" and the value, or
\* the name of the exception.
Ok(v) == [err |-> "None", val |-> v]

Raise(e) == [err |-> e, val |-> ""]

\* str.format(**parameters): "{{" and "}}" are literal braces, "{name}" is
\* replaced by parameters[name] (KeyError when absent; IndexError for the
\* positional "{}"), a single "{" or "}" is a ValueError.  Field names are
\* plain keys (no conversion, format spec, attribute or index).  The text
\* is taken brace by brace: position i up to the next brace (at) is literal;
\* open and close are the next "{" and "}", j the "}" that ends a field.
RECURSIVE FormatFrom(_, _, _)
FormatFrom(s, i, parameters) ==
  LET More(literal, piece, next) ==
        LET Join(rest) ==
              IF rest.err # "None" THEN rest ELSE Ok(literal \o piece \o rest.val)
        IN  Join(FormatFrom(s, next, parameters))
      Field(literal, field, j) ==
        IF j = 0 THEN Raise("ValueError")
        ELSE IF field = "" THEN Raise("IndexError")
        ELSE IF field \notin DOMAIN parameters THEN Raise("KeyError")
        ELSE More(literal, parameters[field], j + 1)
      FieldTo(literal, at, j) == Field(literal, SubSeq(s, at + 1, j - 1), j)
      Brace(literal, at) ==
        IF at = 0 THEN Ok(SubSeq(s, i, Len(s)))
        ELSE IF Char(s, at) = "{"
        THEN IF at < Len(s) /\ Char(s, at + 1) = "{"
             THEN More(literal, "{", at + 2)
             ELSE FieldTo(literal, at, IndexFrom(s, "}", at + 1))
        ELSE IF at < Len(s) /\ Char(s, at + 1) = "}"
             THEN More(literal, "}", at + 2)
             ELSE Raise("ValueError")
      At(at) == Brace(SubSeq(s, i, at - 1), at)
      First(open, close) ==
        At(IF open = 0 THEN close
           ELSE IF close = 0 \/ open < close THEN open ELSE close)
  IN  First(IndexFrom(s, "{", i), IndexFrom(s, "}", i))

Format(template, parameters) == FormatFrom(template, 1, parameters)

\* s.split(';')[1]: the text between the first ';' and the next one (or the
\* end); IndexError when s holds no ';'
SplitSecond(s) ==
  LET Upto(i, j) == Ok(SubSeq(s, i + 1, IF j = 0 THEN Len(s) ELSE j - 1))
      After(i) == IF i = 0 THEN Raise("IndexError")
                  ELSE Upto(i, IndexFrom(s, ";", i + 1))
  IN  After(IndexFrom(s, ";", 1))

\* The end of the match of the pattern '^s=\[.+\]' in s, 0 when it does not
\* match: '.+' is greedy and takes no newline, so the match runs to the last
\* ']' of the first line, with at least one character inside the brackets.
SubMatchEnd(s) ==
  LET Last(closes) ==
        IF Len(s) >= 5 /\ SubSeq(s, 1, 3) = "s=[" /\ closes # {}
        THEN CHOOSE k \in closes : \A m \in closes : m <= k
        ELSE 0
      Line(nl) ==
        Last({k \in 5..(IF nl = 0 THEN Len(s) ELSE nl - 1) : Char(s, k) = "]"})
  IN  Line(IndexFrom(s, "\n", 1))

\* re.sub('^s=\[.+\]', repl, s)
ReSub(repl, s) ==
  LET Replace(k) == IF k = 0 THEN s ELSE repl \o SubSeq(s, k + 1, Len(s))
  IN  Replace(SubMatchEnd(s))

(***************************************************************************)
(* Dictionaries whose order matters: sequences of [key, val] entries in    *)
(* insertion order.  Storing under a key that is present replaces the      *)
(* value in place, as a Python dict does.                                  *)
(***************************************************************************)
DictKeys(d) == {d[i].key : i \in 1..Len(d)}

DictGet(d, k) == d[CHOOSE i \in 1..Len(d) : d[i].key = k].val

\* DictSet as a list would do it: every store adds an entry
DictSetAppend(d, k, v) == Append(d, [key |-> k, val |-> v])

\* DictSet that puts a replaced entry at the end
DictSetMoveToEnd(d, k, v) ==
  Append(SelectSeq(d, LAMBDA entry : entry.key # k), [key |-> k, val |-> v])

DictSet(d, k, v) ==
  IF k \in DictKeys(d)
  THEN [i \in 1..Len(d) |-> IF d[i].key = k THEN [key |-> k, val |-> v] ELSE d[i]]
  ELSE Append(d, [key |-> k, val |-> v])

DictValues(d) == [i \in 1..Len(d) |-> d[i].val]

\* the empty dict that is only looked up
EmptyDict == <<>>

(***************************************************************************)
(* Birth payloads: a payload is a function from keys to tagged values.     *)
(***************************************************************************)
Dict(m) == [t |-> "dict", v |-> m]

List(l) == [t |-> "list", v |-> l]

Str(s) == [t |-> "str", v |-> s]

\* updateDict(baseData, updateData).  A Mapping value is merged into
\* baseData.get(key, {}); when that is not a dict the recursive call either
\* has nothing to assign (empty Mapping: the old value comes back) or fails
\* on the item assignment (TypeError).  Every other value replaces the old.
RECURSIVE updateDict(_, _)
updateDict(baseData, updateData) ==
  LET Merged(key) ==
        LET value == updateData[key]
            sub == IF key \in DOMAIN baseData THEN baseData[key] ELSE Dict(EmptyDict)
        IN  IF value.t = "dict"
            THEN IF sub.t = "dict"
                 THEN LET r == updateDict(sub.v, value.v)
                      IN  IF r.err # "None" THEN r ELSE Ok(Dict(r.val))
                 ELSE IF DOMAIN value.v = {} THEN Ok(sub)
                 ELSE Raise("TypeError")
            ELSE Ok(value)
      failed == {k \in DOMAIN updateData : Merged(k).err # "None"}
  IN  IF failed # {} THEN Raise("TypeError")
      ELSE Ok([k \in DOMAIN baseData \cup DOMAIN updateData |->
                 IF k \in DOMAIN updateData THEN Merged(k).val ELSE baseData[k]])

\* the first loop of processBirthObjects: every payload merged into rawData
RECURSIVE MergeBirths(_, _)
MergeBirths(raw, births) ==
  IF births = <<>> THEN Ok(raw)
  ELSE LET r == updateDict(raw, Head(births))
       IN  IF r.err # "None" THEN r ELSE MergeBirths(r.val, Tail(births))

\* the inner loop of processBirthObjects over the members of a '_types_'
\* record: the UdtType members enter the registry under their names
RECURSIVE RegisterTypes(_, _)
RegisterTypes(registry, modelTags) ==
  IF modelTags = <<>> THEN registry
  ELSE LET modelTag == Head(modelTags)
       IN  RegisterTypes(IF modelTag.tagType = "UdtType"
                         THEN (modelTag.name :> modelTag) @@ registry
                         ELSE registry,
                         Tail(modelTags))

\* the second loop of processBirthObjects: [models, assets] after the
\* records of rawData['tags']
RECURSIVE Partition(_, _)
Partition(st, records) ==
  IF records = <<>> THEN st
  ELSE LET record == Head(records)
       IN  Partition(
             IF record.name \in tagBlacklist THEN st
             ELSE IF record.name = "_types_"
             THEN [st EXCEPT !.models = RegisterTypes(st.models, record.tags)]
             ELSE [st EXCEPT !.assets = Append(st.assets, record)],
             Tail(records))

(***************************************************************************)
(* Models.                                                                 *)
(***************************************************************************)
\* genModelNode(name, modelMetrics, parentName): the model node and the
\* entry of modelPropertyMap for name.  A metric without dataType or of an
\* unsupported dataType is skipped; a kept metric without an
\* opcItemPath.binding is a KeyError.
genModelNode(name, modelMetrics, parentName) ==
  LET kept == SelectSeq(modelMetrics,
                LAMBDA metric : /\ "dataType" \in DOMAIN metric
                                /\ metric.dataType \notin unsupportedDataTypes)
      Last(n) == CHOOSE i \in 1..Len(kept) :
                   /\ kept[i].name = n
                   /\ \A j \in 1..Len(kept) : kept[j].name = n => j <= i
  IN  IF \E i \in 1..Len(kept) : "opcItemPath" \notin DOMAIN kept[i]
      THEN [err |-> "KeyError", val |-> "", map |-> EmptyDict]
      ELSE [err |-> "None",
            val |-> [assetModelName |-> name,
                     parent |-> parentName,
                     assetModelProperties |->
                       [i \in 1..Len(kept) |->
                          [name |-> kept[i].name,
                           dataType |-> DataTypeGet(kept[i].dataType),
                           type |-> [measurement |-> EmptyDict]]],
                     assetModelHierarchies |-> <<>>,
                     change |-> "YES"],
            map |-> [n \in {kept[i].name : i \in 1..Len(kept)} |->
                       kept[Last(n)].opcItemPath.binding]]

\* the name generatePlaceholderModels gives the placeholder of a depth
PlaceholderName(depthLevel) ==
  IF depthLevel = 1 THEN "__Node"
  ELSE IF depthLevel = 0 THEN "__Group"
  ELSE "__DeviceLevel" \o ToString(depthLevel - 1)

\* generatePlaceholderModels that stops one level late
RECURSIVE generatePlaceholderModelsOffByOne(_, _, _)
generatePlaceholderModelsOffByOne(st, depthLevel, parentName) ==
  IF depthLevel > hierarchyMaxDepth THEN st
  ELSE LET pName == PlaceholderName(depthLevel)
           gen == genModelNode(pName, <<>>, parentName)
       IN  generatePlaceholderModelsOffByOne(
             [normalizedModels |-> DictSet(st.normalizedModels, pName, gen.val),
              depthModelMap |-> (depthLevel :> gen.val) @@ st.depthModelMap,
              modelPropertyMap |-> (pName :> gen.map) @@ st.modelPropertyMap],
             depthLevel + 1, pName)

\* generatePlaceholderModels(depthLevel, parentName) on the driver's
\* [normalizedModels, depthModelMap, modelPropertyMap]
RECURSIVE generatePlaceholderModels(_, _, _)
generatePlaceholderModels(st, depthLevel, parentName) ==
  IF depthLevel >= hierarchyMaxDepth THEN st
  ELSE LET pName == PlaceholderName(depthLevel)
           gen == genModelNode(pName, <<>>, parentName)
       IN  generatePlaceholderModels(
             [normalizedModels |-> DictSet(st.normalizedModels, pName, gen.val),
              depthModelMap |-> (depthLevel :> gen.val) @@ st.depthModelMap,
              modelPropertyMap |-> (pName :> gen.map) @@ st.modelPropertyMap],
             depthLevel + 1, pName)

(***************************************************************************)
(* The asset-tree walk.                                                    *)
(***************************************************************************)
getAssetNodeType(nodeValue) ==
  IF nodeValue.tagType = "UdtInstance" THEN "asset" ELSE "folder"

\* DerivedModelName without the depth
DerivedModelNameOfType(referenceName, depthLevel) == referenceName

\* the name of the model derived from a type at a depth
DerivedModelName(referenceName, depthLevel) ==
  referenceName \o "_D" \o ToString(depthLevel)

\* getAssetNodeData(nodeValue, depthLevel) on the driver's state st: the node
\* type, the base model name, the state after the call and the names
\* genModelNode was called with.  The KeyErrors are those of
\* self.models[referenceName] and self.depthModelMap[depthLevel].
getAssetNodeData(st, nodeValue, depthLevel) ==
  LET nodeType == getAssetNodeType(nodeValue)
      Failed == [err |-> "KeyError", nodeType |-> nodeType, baseModelName |-> "",
                 st |-> st, built |-> <<>>]
  IN  IF nodeType = "asset"
      THEN IF "typeId" \notin DOMAIN nodeValue THEN Failed
           ELSE
             LET referenceName == nodeValue.typeId
                 derivedModelName == DerivedModelName(referenceName, depthLevel)
             IN  IF derivedModelName \notin DictKeys(st.normalizedModels)
                 THEN IF referenceName \notin DOMAIN st.models THEN Failed
                      ELSE
                        LET gen == genModelNode(derivedModelName,
                                                st.models[referenceName].tags, "root")
                        IN  IF gen.err # "None" THEN Failed
                            ELSE [err |-> "None", nodeType |-> nodeType,
                                  baseModelName |-> derivedModelName,
                                  st |-> [st EXCEPT
                                     !.normalizedModels =
                                        DictSet(@, derivedModelName, gen.val),
                                     !.modelPropertyMap =
                                        (derivedModelName :> gen.map) @@ @],
                                  built |-> <<derivedModelName>>]
                 ELSE [err |-> "None", nodeType |-> nodeType,
                       baseModelName |-> derivedModelName, st |-> st, built |-> <<>>]
      ELSE IF depthLevel \notin DOMAIN st.depthModelMap THEN Failed
           ELSE [err |-> "None", nodeType |-> nodeType,
                 baseModelName |-> st.depthModelMap[depthLevel].assetModelName,
                 st |-> st, built |-> <<>>]

\* the tag path genAssetNode computes for one property: the template with the
\* parameters substituted, its second ';' segment, the source prefix rewritten
TagPath(template, parameters) ==
  LET Rewrite(segment) ==
        IF segment.err # "None" THEN segment
        ELSE Ok(ReSub(tagAliasPrefix \o "/", segment.val))
      Split(formatted) ==
        IF formatted.err # "None" THEN formatted
        ELSE Rewrite(SplitSecond(formatted.val))
  IN  Split(Format(template, parameters))

\* genAssetNode(nodeName, nodeValue, baseModel, parentName)
genAssetNode(st, nodeName, nodeValue, baseModel, parentName) ==
  LET modelNode == DictGet(st.normalizedModels, baseModel)
      tagsList == modelNode.assetModelProperties
      withTags == tagsList # <<>> /\ "parameters" \in DOMAIN nodeValue
      path(i) == TagPath(st.modelPropertyMap[baseModel][tagsList[i].name],
                         nodeValue.parameters)
      \* paths: the result of path for each property, in the order of the loop
      Node(paths, bad) ==
        LET Tagged(tags) ==
              Ok(IF parentName # ""
                 THEN [assetName |-> nodeName, modelName |-> baseModel,
                       change |-> "YES", tags |-> tags, parentName |-> parentName]
                 ELSE [assetName |-> nodeName, modelName |-> baseModel,
                       change |-> "YES", tags |-> tags])
        IN  IF bad # {}
            THEN Raise(paths[CHOOSE i \in bad : \A j \in bad : i <= j].err)
            ELSE Tagged([i \in DOMAIN paths |->
                          [tagName |-> tagsList[i].name, tagPath |-> paths[i].val]])
      Paths(paths) == Node(paths, {i \in DOMAIN paths : paths[i].err # "None"})
  IN  Paths(IF withTags THEN [i \in 1..Len(tagsList) |-> path(i)] ELSE <<>>)

\* One call of processAssetTree(nodeValue, depthLevel, parentPath) up to its
\* recursive calls: the state after the call, the frames of the calls it
\* makes for the children of a folder, and what the call did.
processAssetTree(st, frame) ==
  LET nodeValue == frame.nodeValue
      nodePath == frame.parentPath \o "/" \o nodeValue.name
      Failed(e, data) == [err |-> e, st |-> st, calls |-> <<>>, built |-> <<>>,
                          nodePath |-> nodePath, nodeType |-> data.nodeType]
      \* data: what getAssetNodeData returned; assetNode: what genAssetNode did
      Store(data, assetNode) ==
        IF assetNode.err # "None" THEN Failed(assetNode.err, data)
        ELSE IF data.nodeType = "folder" /\ "tags" \notin DOMAIN nodeValue
        THEN Failed("KeyError", data)
        ELSE [err |-> "None",
              st |-> [data.st EXCEPT !.normalizedAssets =
                                        DictSet(@, nodePath, assetNode.val)],
              calls |-> IF data.nodeType = "folder"
                        THEN [i \in 1..Len(nodeValue.tags) |->
                                [nodeValue |-> nodeValue.tags[i],
                                 depthLevel |-> frame.depthLevel + 1,
                                 parentPath |-> nodePath]]
                        ELSE <<>>,
              built |-> data.built,
              nodePath |-> nodePath,
              nodeType |-> data.nodeType]
      Generate(data) ==
        IF data.err # "None" THEN Failed(data.err, data)
        ELSE Store(data, genAssetNode(data.st, nodePath, nodeValue,
                                      data.baseModelName, frame.parentPath))
  IN  Generate(getAssetNodeData(st, nodeValue, frame.depthLevel))

(***************************************************************************)
(* Inputs: tag nodes, type definitions and the batches of birth payloads   *)
(* the model is run on.                                                    *)
(***************************************************************************)
Folder(name, children) == [name |-> name, tagType |-> "Folder", tags |-> children]

Instance(name, typeId, parameters) ==
  [name |-> name, tagType |-> "UdtInstance", typeId |-> typeId,
   parameters |-> parameters]

InstanceNoParameters(name, typeId) ==
  [name |-> name, tagType |-> "UdtInstance", typeId |-> typeId]

\* a plain tag: no 'tags' member
AtomicTag(name) == [name |-> name, tagType |-> "AtomicTag", dataType |-> "Int4"]

Metric(name, dataType, binding) ==
  [name |-> name, tagType |-> "AtomicTag", dataType |-> dataType,
   opcItemPath |-> [binding |-> binding]]

UdtType(name, metrics) == [name |-> name, tagType |-> "UdtType", tags |-> metrics]

Payload(members) == [tags |-> List(members)]

\* the type registry of the enumerated batches
PumpType ==
  UdtType("PumpType",
    <<Metric("Speed", "Float4", "ns=1;s=[default]Pumps/{pumpId}/Speed"),
      Metric("Ctl", "Template", "ns=1;s=[default]Pumps/{pumpId}/Ctl"),
      [name |-> "Docs", tagType |-> "Folder"],
      Metric("Note", "Text", "ns=1;s=[default]Pumps/{pumpId}/Note")>>)

ValveType ==
  UdtType("ValveType",
    <<Metric("State", "Boolean", "ns=1;s=[default]Valves/{valveId}/State")>>)

BareType == UdtType("BareType", <<Metric("Ctl", "Template", "x")>>)

TypesContainer ==
  [name |-> "_types_", tagType |-> "Folder",
   tags |-> <<PumpType, ValveType, BareType, Folder("Old", <<>>)>>]

\* the payloads of Scenario A
ScenarioATypes ==
  [name |-> "_types_",
   tags |-> <<UdtType("PumpType",
                <<[name |-> "Speed", dataType |-> "Float4",
                   opcItemPath |->
                     [binding |-> "...;ns=1;s=[default]Pumps/{pumpId}/Speed"]]>>)>>]

Pump1 == Instance("Pump1", "PumpType", [pumpId |-> "P1"])

ScenarioA == <<Payload(<<ScenarioATypes>>), Payload(<<Pump1>>)>>

ScenarioAOnePayload == <<Payload(<<ScenarioATypes, Pump1>>)>>

\* the labelled nodes of the enumerated forests
LeafNodes ==
  {Instance("A", "PumpType", [pumpId |-> "P1"]),
   InstanceNoParameters("B", "PumpType"),
   Instance("B", "ValveType", [pumpId |-> "P2"]),
   Instance("A", "NoSuchType", [pumpId |-> "P1"])}

FolderNames == {"A", "A/B"}

\* the forests (lists of trees) of exactly n nodes
RECURSIVE Forests(_)
Trees(n) ==
  IF n = 1
  THEN LeafNodes \cup {Folder(name, <<>>) : name \in FolderNames}
  ELSE {Folder(name, f) : name \in FolderNames, f \in Forests(n - 1)}

Forests(n) ==
  IF n = 0 THEN {<<>>}
  ELSE UNION {{<<t>> \o f : t \in Trees(k), f \in Forests(n - k)} : k \in 1..n}

EnumeratedBatches ==
  {<<Payload(<<TypesContainer>> \o f)>> : f \in UNION {Forests(n) : n \in 0..MaxNodes}}

\* a chain of n folders above a leaf
RECURSIVE Chain(_, _)
Chain(n, leaf) ==
  IF n = 0 THEN leaf ELSE Folder("L" \o ToString(n), <<Chain(n - 1, leaf)>>)

OneBatch(roots) == <<Payload(<<TypesContainer>> \o roots)>>

Meta(source) == Dict([source |-> Str(source), site |-> Dict([id |-> Str("s1")])])

ScenarioBatches ==
  {ScenarioA,
   ScenarioAOnePayload,
   \* the same type at depth 0 and, twice, at depth 2 (Scenario C)
   OneBatch(<<Pump1,
              Folder("Line", <<Folder("Cell",
                <<Instance("Pump2", "PumpType", [pumpId |-> "P2"]),
                  Instance("Pump3", "PumpType", [pumpId |-> "P3"])>>)>>)>>),
   \* the deepest walk that completes, and a folder below the placeholders
   OneBatch(<<Chain(hierarchyMaxDepth, Pump1)>>),
   OneBatch(<<Pump1, Chain(hierarchyMaxDepth, Folder("Deep", <<>>))>>),
   \* parameter values and templates that meet the pattern and the separator
   OneBatch(<<Instance("Pump4", "PumpType", [pumpId |-> "P]4"])>>),
   OneBatch(<<Instance("Pump5", "PumpType", [pumpId |-> "P;5"])>>),
   OneBatch(<<Folder("Sim Controls", <<Pump1>>), Folder("Site", <<Pump1>>)>>),
   OneBatch(<<Instance("Bare", "BareType", [pumpId |-> "P1"]),
              Instance("Valve", "ValveType", [valveId |-> "V1"])>>),
   \* a plain tag in a folder: it is taken for a folder and has no members
   OneBatch(<<Folder("Site", <<Pump1, AtomicTag("Level")>>)>>),
   \* payloads with nested mappings, without 'tags', and no payload at all
   <<[tags |-> List(<<TypesContainer, Pump1>>), meta |-> Meta("a")],
     [meta |-> Dict([source |-> Str("b")])]>>,
   <<[tags |-> List(<<TypesContainer>>), meta |-> Str("a")],
     [tags |-> List(<<TypesContainer, Pump1>>), meta |-> Dict(EmptyDict)]>>,
   <<[tags |-> List(<<TypesContainer>>), meta |-> Str("a")], [meta |-> Meta("b")]>>,
   <<[meta |-> Meta("a")]>>,
   <<>>}

Batches == EnumeratedBatches \cup ScenarioBatches

\* what the tables hold before the first delivery: nothing, or records of an
\* earlier load under some of the keys
StaleModel(name) ==
  [assetModelName |-> name, parent |-> "root", assetModelProperties |-> <<>>,
   assetModelHierarchies |-> <<>>, change |-> "NO"]

StaleAsset(name) ==
  [assetName |-> name, modelName |-> "__Group", change |-> "NO", tags |-> <<>>]

InitialTables ==
  {[models |-> EmptyDict, assets |-> EmptyDict],
   [models |-> ("__Node" :> StaleModel("__Node"))
                 @@ ("PumpType_D0" :> StaleModel("PumpType_D0")),
    assets |-> ("/A" :> StaleAsset("/A")) @@ ("/Pump1" :> StaleAsset("/Pump1"))]}

(***************************************************************************)
(* State.                                                                  *)
(***************************************************************************)
VARIABLES
  birthData,          \* event['birthData'] of the invocation
  rawData, models, assets, depthModelMap, modelPropertyMap,
  normalizedModels, normalizedAssets,      \* the fields of the driver
  dynamoModels, dynamoAssets,              \* the lists processEvent writes
  assetModelTable, assetTable,             \* the items of the two tables
  pc,                 \* the step processEvent is at
  stack,              \* the pending calls of processAssetTree, next one first
  idx,                \* position of createDynamoRecords in its data
  raised,             \* the exception that left processEvent, or "None"
  caught,             \* the exception processEvent caught and logged, or "None"
  visited,            \* the completed calls of processAssetTree, in order
  genModelCalls,      \* the names genModelNode was called with by the walk
  putLog,             \* the put_item calls of the invocation and their ends
  run,                \* the number of the delivery
  delivered           \* what each finished delivery left behind

vars ==
  <<birthData, rawData, models, assets, depthModelMap, modelPropertyMap,
    normalizedModels, normalizedAssets, dynamoModels, dynamoAssets,
    assetModelTable, assetTable, pc, stack, idx, raised, caught, visited,
    genModelCalls, putLog, run, delivered>>

driverVars ==
  <<rawData, models, assets, depthModelMap, modelPropertyMap,
    normalizedModels, normalizedAssets>>

tableVars == <<assetModelTable, assetTable>>

\* IgnitionFileDriver.__init__ and the entry of processEvent
FreshDriver ==
  /\ rawData = EmptyDict
  /\ models = EmptyDict
  /\ assets = <<>>
  /\ depthModelMap = EmptyDict
  /\ modelPropertyMap = EmptyDict
  /\ normalizedModels = <<>>
  /\ normalizedAssets = <<>>
  /\ dynamoModels = <<>>
  /\ dynamoAssets = <<>>
  /\ pc = "processBirthObjects"
  /\ stack = <<>>
  /\ idx = 1
  /\ raised = "None"
  /\ caught = "None"
  /\ visited = <<>>
  /\ genModelCalls = <<>>
  /\ putLog = <<>>

InitOn(batches) ==
  /\ birthData \in batches
  /\ \E tables \in InitialTables :
       /\ assetModelTable = tables.models
       /\ assetTable = tables.assets
  /\ FreshDriver
  /\ run = 1
  /\ delivered = <<>>

Init == InitOn(Batches)

Driver ==
  [models |-> models, depthModelMap |-> depthModelMap,
   modelPropertyMap |-> modelPropertyMap,
   normalizedModels |-> normalizedModels, normalizedAssets |-> normalizedAssets]

\* Propagate under an except clause that takes every exception
PropagateCaught(e) ==
  /\ pc' = "returned"
  /\ caught' = e
  /\ UNCHANGED raised

\* an exception that no except clause of processEvent matches
Propagate(e) ==
  /\ pc' = "raised"
  /\ raised' = e
  /\ UNCHANGED caught

(***************************************************************************)
(* processEvent, step by step.                                             *)
(***************************************************************************)
\* processBirthObjects(event['birthData'])
ProcessBirthObjects ==
  /\ pc = "processBirthObjects"
  /\ LET merged == MergeBirths(rawData, birthData)
     IN  IF merged.err # "None"
         THEN /\ Propagate(merged.err)
              /\ UNCHANGED <<rawData, models, assets>>
         ELSE IF "tags" \notin DOMAIN merged.val
         THEN /\ Propagate("KeyError")
              /\ rawData' = merged.val
              /\ UNCHANGED <<models, assets>>
         ELSE LET part == Partition([models |-> models, assets |-> assets],
                                    merged.val["tags"].v)
              IN  /\ rawData' = merged.val
                  /\ models' = part.models
                  /\ assets' = part.assets
                  /\ pc' = "generatePlaceholderModels"
                  /\ UNCHANGED <<raised, caught>>
  /\ UNCHANGED <<birthData, depthModelMap, modelPropertyMap, normalizedModels,
                 normalizedAssets, dynamoModels, dynamoAssets, tableVars, stack,
                 idx, visited, genModelCalls, putLog, run, delivered>>

\* self.generatePlaceholderModels(), then the loop over self.assets starts
GeneratePlaceholderModels ==
  /\ pc = "generatePlaceholderModels"
  /\ LET st == generatePlaceholderModels(
                 [normalizedModels |-> normalizedModels,
                  depthModelMap |-> depthModelMap,
                  modelPropertyMap |-> modelPropertyMap], 0, "root")
     IN  /\ normalizedModels' = st.normalizedModels
         /\ depthModelMap' = st.depthModelMap
         /\ modelPropertyMap' = st.modelPropertyMap
  /\ stack' = [i \in 1..Len(assets) |->
                 [nodeValue |-> assets[i], depthLevel |-> 0, parentPath |-> ""]]
  /\ pc' = "processAssetTree"
  /\ UNCHANGED <<birthData, rawData, models, assets, normalizedAssets,
                 dynamoModels, dynamoAssets, tableVars, idx, raised, caught,
                 visited, genModelCalls, putLog, run, delivered>>

\* the next call of processAssetTree: a root of self.assets or a child of a
\* folder already visited, in depth-first order
ProcessAssetTree ==
  /\ pc = "processAssetTree"
  /\ stack # <<>>
  /\ \E frame \in {Head(stack)} : \E call \in {processAssetTree(Driver, frame)} :
         IF call.err # "None"
         THEN /\ Propagate(call.err)
              /\ UNCHANGED <<normalizedModels, modelPropertyMap, normalizedAssets,
                             stack, visited, genModelCalls>>
         ELSE /\ normalizedModels' = call.st.normalizedModels
              /\ modelPropertyMap' = call.st.modelPropertyMap
              /\ normalizedAssets' = call.st.normalizedAssets
              /\ stack' = call.calls \o Tail(stack)
              /\ visited' = Append(visited,
                              [nodePath |-> call.nodePath,
                               nodeName |-> frame.nodeValue.name,
                               parentPath |-> frame.parentPath,
                               depthLevel |-> frame.depthLevel,
                               nodeType |-> call.nodeType,
                               nodeValue |-> frame.nodeValue])
              /\ genModelCalls' = genModelCalls \o call.built
              /\ UNCHANGED <<pc, raised, caught>>
  /\ UNCHANGED <<birthData, rawData, models, assets, depthModelMap,
                 dynamoModels, dynamoAssets, tableVars, idx, putLog, run,
                 delivered>>

\* the walk is over: the two lists of values are taken
CollectRecords ==
  /\ pc = "processAssetTree"
  /\ stack = <<>>
  /\ dynamoAssets' = DictValues(normalizedAssets)
  /\ dynamoModels' = DictValues(normalizedModels)
  /\ idx' = 1
  /\ pc' = "createModels"
  /\ UNCHANGED <<birthData, driverVars, tableVars, stack, raised, caught,
                 visited, genModelCalls, putLog, run, delivered>>

\* put_item without the condition: the item is stored in any case
put_itemUnconditional(table, record, primaryKey) ==
  [table |-> (record[primaryKey] :> record) @@ table, outcome |-> "stored"]

\* put_item that reports the conflict after it has replaced the item
put_itemReplacing(table, record, primaryKey) ==
  [table |-> (record[primaryKey] :> record) @@ table,
   outcome |-> IF record[primaryKey] \in DOMAIN table
               THEN "ConditionalCheckFailedException" ELSE "stored"]

\* table.put_item(Item=record, ConditionExpression=
\* 'attribute_not_exists(primaryKey)') when the table answers: the item is
\* stored if the key is free, else ConditionalCheckFailedException
put_item(table, record, primaryKey) ==
  IF record[primaryKey] \in DOMAIN table
  THEN [table |-> table, outcome |-> "ConditionalCheckFailedException"]
  ELSE [table |-> (record[primaryKey] :> record) @@ table, outcome |-> "stored"]

\* the put_item call entered in putLog, with the item the table held under
\* the key when the call was made (found: that item alone, or nothing)
Logged(tableName, table, record, primaryKey, outcome) ==
  Append(putLog,
    [table |-> tableName, key |-> record[primaryKey], outcome |-> outcome,
     found |-> IF record[primaryKey] \in DOMAIN table
               THEN <<table[record[primaryKey]]>> ELSE <<>>])

\* one turn of the loop of createDynamoRecords on the model table
CreateModelRecord ==
  /\ pc = "createModels"
  /\ idx <= Len(dynamoModels)
  /\ LET put == put_item(assetModelTable, dynamoModels[idx], "assetModelName")
     IN  /\ assetModelTable' = put.table
         /\ putLog' = Logged("assetModelTable", assetModelTable,
                             dynamoModels[idx], "assetModelName", put.outcome)
  /\ idx' = idx + 1
  /\ UNCHANGED <<birthData, driverVars, dynamoModels, dynamoAssets, assetTable,
                 pc, stack, raised, caught, visited, genModelCalls, run,
                 delivered>>

\* createDynamoRecords has gone through the models and starts on the assets
ModelsCreated ==
  /\ pc = "createModels"
  /\ idx > Len(dynamoModels)
  /\ idx' = 1
  /\ pc' = "createAssets"
  /\ UNCHANGED <<birthData, driverVars, dynamoModels, dynamoAssets, tableVars,
                 stack, raised, caught, visited, genModelCalls, putLog, run,
                 delivered>>

\* one turn of the loop of createDynamoRecords on the asset table
CreateAssetRecord ==
  /\ pc = "createAssets"
  /\ idx <= Len(dynamoAssets)
  /\ LET put == put_item(assetTable, dynamoAssets[idx], "assetName")
     IN  /\ assetTable' = put.table
         /\ putLog' = Logged("assetTable", assetTable, dynamoAssets[idx],
                             "assetName", put.outcome)
  /\ idx' = idx + 1
  /\ UNCHANGED <<birthData, driverVars, dynamoModels, dynamoAssets,
                 assetModelTable, pc, stack, raised, caught, visited,
                 genModelCalls, run, delivered>>

\* createDynamoRecords has gone through the assets: processEvent returns
AssetsCreated ==
  /\ pc = "createAssets"
  /\ idx > Len(dynamoAssets)
  /\ pc' = "returned"
  /\ UNCHANGED <<birthData, driverVars, dynamoModels, dynamoAssets, tableVars,
                 stack, idx, raised, caught, visited, genModelCalls, putLog,
                 run, delivered>>

\* the except clause of processEvent: the ClientError is logged and
\* processEvent ends
processEventExcept(e) ==
  /\ caught' = e
  /\ pc' = "returned"
  /\ UNCHANGED raised

\* CreateRecordFails when createDynamoRecords ignores every ClientError
CreateRecordFailsIgnored ==
  /\ pc \in {"createModels", "createAssets"}
  /\ LET onModels == pc = "createModels"
         data == IF onModels THEN dynamoModels ELSE dynamoAssets
     IN  /\ idx <= Len(data)
         /\ putLog' = Logged(IF onModels THEN "assetModelTable" ELSE "assetTable",
                             IF onModels THEN assetModelTable ELSE assetTable,
                             data[idx],
                             IF onModels THEN "assetModelName" ELSE "assetName",
                             "ClientError")
  /\ idx' = idx + 1
  /\ UNCHANGED <<birthData, driverVars, dynamoModels, dynamoAssets, tableVars,
                 pc, stack, raised, caught, visited, genModelCalls, run,
                 delivered>>

\* put_item fails with a ClientError other than the conditional check:
\* createDynamoRecords re-raises it and the except clause of processEvent
\* takes it
CreateRecordFails ==
  /\ pc \in {"createModels", "createAssets"}
  /\ LET onModels == pc = "createModels"
         data == IF onModels THEN dynamoModels ELSE dynamoAssets
     IN  /\ idx <= Len(data)
         /\ putLog' = Logged(IF onModels THEN "assetModelTable" ELSE "assetTable",
                             IF onModels THEN assetModelTable ELSE assetTable,
                             data[idx],
                             IF onModels THEN "assetModelName" ELSE "assetName",
                             "ClientError")
  /\ processEventExcept("ClientError")
  /\ UNCHANGED <<birthData, driverVars, dynamoModels, dynamoAssets, tableVars,
                 stack, idx, visited, genModelCalls, run, delivered>>

\* handler(event, context) on a delivery of the same event again: a new
\* driver, the tables as they are
handler ==
  /\ pc \in {"returned", "raised"}
  /\ run < MaxRuns
  /\ delivered' = Append(delivered,
                    [pc |-> pc, raised |-> raised, caught |-> caught,
                     dynamoModels |-> dynamoModels, dynamoAssets |-> dynamoAssets,
                     assetModelTable |-> assetModelTable,
                     assetTable |-> assetTable])
  /\ run' = run + 1
  /\ rawData' = EmptyDict
  /\ models' = EmptyDict
  /\ assets' = <<>>
  /\ depthModelMap' = EmptyDict
  /\ modelPropertyMap' = EmptyDict
  /\ normalizedModels' = <<>>
  /\ normalizedAssets' = <<>>
  /\ dynamoModels' = <<>>
  /\ dynamoAssets' = <<>>
  /\ pc' = "processBirthObjects"
  /\ stack' = <<>>
  /\ idx' = 1
  /\ raised' = "None"
  /\ caught' = "None"
  /\ visited' = <<>>
  /\ genModelCalls' = <<>>
  /\ putLog' = <<>>
  /\ UNCHANGED <<birthData, tableVars>>

Next ==
  \/ ProcessBirthObjects
  \/ GeneratePlaceholderModels
  \/ ProcessAssetTree
  \/ CollectRecords
  \/ CreateModelRecord
  \/ ModelsCreated
  \/ CreateAssetRecord
  \/ AssetsCreated
  \/ CreateRecordFails

Spec == Init /\ [][Next]_vars

\* deliveries of one batch, one after the other
RedeliveryBatches ==
  ScenarioBatches
    \cup {<<Payload(<<TypesContainer>> \o f)>> : f \in Forests(1) \cup Forests(2)}

InitRedelivery == InitOn(RedeliveryBatches)

NextRedelivery ==
  \/ ProcessBirthObjects
  \/ GeneratePlaceholderModels
  \/ ProcessAssetTree
  \/ CollectRecords
  \/ CreateModelRecord
  \/ ModelsCreated
  \/ CreateAssetRecord
  \/ AssetsCreated
  \/ CreateRecordFails
  \/ handler

SpecRedelivery == InitRedelivery /\ [][NextRedelivery]_vars

(***************************************************************************)
(* Properties.                                                             *)
(***************************************************************************)
\* the walk is over and the two lists have been taken
Collected == pc \in {"createModels", "createAssets", "returned"}

ModelNames == {dynamoModels[i].assetModelName : i \in 1..Len(dynamoModels)}

PathOf(v) == v.parentPath \o "/" \o v.nodeName

VisitedPaths == {PathOf(visited[i]) : i \in 1..Len(visited)}

\* the last visited node that produced path p
LastVisit(p) ==
  visited[CHOOSE i \in 1..Len(visited) :
            /\ PathOf(visited[i]) = p
            /\ \A j \in 1..Len(visited) : PathOf(visited[j]) = p => j <= i]

\* the (typeId, depth) pairs of the visited instances
InstancePairs ==
  {<<visited[i].nodeValue.typeId, visited[i].depthLevel>> :
     i \in {j \in 1..Len(visited) : visited[j].nodeType = "asset"}}

NameOfPair(p) == p[1] \o "_D" \o ToString(p[2])

\* C8: generatePlaceholderModels() leaves exactly hierarchyMaxDepth
\* placeholder model records, one per depth 0..hierarchyMaxDepth-1, named
\* __Group, __Node and __DeviceLevel<depth-1>, all distinct, each with an
\* empty property list, the first with parent root and every other with the
\* name of the record of the depth above as parent; every further model
\* record is a derived one.
C8_PlaceholderChain ==
  pc \in {"processAssetTree", "createModels", "createAssets", "returned"} =>
    /\ Len(normalizedModels) >= hierarchyMaxDepth
    /\ DOMAIN depthModelMap = 0..(hierarchyMaxDepth - 1)
    /\ \A d \in 0..(hierarchyMaxDepth - 1) :
         LET m == normalizedModels[d + 1].val
         IN  /\ depthModelMap[d] = m
             /\ normalizedModels[d + 1].key = m.assetModelName
             /\ m.assetModelName =
                  (IF d = 0 THEN "__Group"
                   ELSE IF d = 1 THEN "__Node"
                   ELSE "__DeviceLevel" \o ToString(d - 1))
             /\ m.assetModelProperties = <<>>
             /\ m.parent = (IF d = 0 THEN "root"
                            ELSE normalizedModels[d].val.assetModelName)
    /\ \A d, e \in 1..hierarchyMaxDepth :
         d # e => normalizedModels[d].key # normalizedModels[e].key
    /\ \A i \in (hierarchyMaxDepth + 1)..Len(normalizedModels) :
         \E k \in 1..Len(genModelCalls) : genModelCalls[k] = normalizedModels[i].key

\* the placeholders have just been generated and the walk has not started
C8_Witness ==
  /\ pc = "processAssetTree"
  /\ visited = <<>>
  /\ Len(normalizedModels) = hierarchyMaxDepth
  /\ normalizedModels[hierarchyMaxDepth].val.parent = "__DeviceLevel7"

\* C3: after a completed walk the model record names are pairwise distinct;
\* every (typeId, depth) pair of a visited instance has exactly one derived
\* record, named <typeId>_D<depth>, for which genModelNode was called exactly
\* once; different pairs have different records, and no derived name is a
\* placeholder name.
C3_DerivedModelPerTypeAndDepth ==
  Collected =>
    /\ \A i, j \in 1..Len(dynamoModels) :
         i # j => dynamoModels[i].assetModelName # dynamoModels[j].assetModelName
    /\ \A p \in InstancePairs :
         /\ Cardinality({i \in 1..Len(dynamoModels) :
                           dynamoModels[i].assetModelName = NameOfPair(p)}) = 1
         /\ Cardinality({k \in 1..Len(genModelCalls) :
                           genModelCalls[k] = NameOfPair(p)}) = 1
         /\ \A d \in 1..hierarchyMaxDepth :
              dynamoModels[d].assetModelName # NameOfPair(p)
    /\ \A p, q \in InstancePairs : p # q => NameOfPair(p) # NameOfPair(q)
    /\ Len(dynamoModels) = hierarchyMaxDepth + Cardinality(InstancePairs)
    /\ Len(genModelCalls) = Cardinality(InstancePairs)

\* one type visited at depth 0 and by two instances at depth 2
C3_Witness ==
  /\ Collected
  /\ \E i, j, k \in 1..Len(visited) :
       /\ j # k
       /\ visited[i].nodeType = "asset" /\ visited[i].depthLevel = 0
       /\ visited[j].nodeType = "asset" /\ visited[j].depthLevel = 2
       /\ visited[k].nodeType = "asset" /\ visited[k].depthLevel = 2
       /\ visited[i].nodeValue.typeId = visited[j].nodeValue.typeId
       /\ visited[i].nodeValue.typeId = visited[k].nodeValue.typeId

\* C2 as stated: after a completed walk there is one asset record per visited
\* node, the i-th named parentPath + '/' + nodeName of the i-th visited node,
\* and no two records share a name.
C2_OneRecordPerNode ==
  Collected =>
    /\ Len(dynamoAssets) = Len(visited)
    /\ \A i \in 1..Len(dynamoAssets) : dynamoAssets[i].assetName = PathOf(visited[i])
    /\ \A i, j \in 1..Len(dynamoAssets) :
         i # j => dynamoAssets[i].assetName # dynamoAssets[j].assetName

\* C2 as amended: after a completed walk there is one asset record per
\* distinct path parentPath + '/' + nodeName of the visited nodes, it is the
\* record of the last visited node of that path, and no two records share a
\* name; nodes of the same path share one record.
C2_OneRecordPerPath ==
  Collected =>
    /\ Len(dynamoAssets) = Cardinality(VisitedPaths)
    /\ \A i, j \in 1..Len(dynamoAssets) :
         i # j => dynamoAssets[i].assetName # dynamoAssets[j].assetName
    /\ \A i \in 1..Len(dynamoAssets) :
         LET r == dynamoAssets[i]
         IN  /\ r.assetName \in VisitedPaths
             /\ LET v == LastVisit(r.assetName)
                IN  /\ r.modelName =
                         (IF v.nodeType = "asset"
                          THEN v.nodeValue.typeId \o "_D" \o ToString(v.depthLevel)
                          ELSE depthModelMap[v.depthLevel].assetModelName)
                    /\ ("parentName" \in DOMAIN r) = (v.parentPath # "")
                    /\ "parentName" \in DOMAIN r => r.parentName = v.parentPath

\* two visited nodes produced the same path
C2_Witness ==
  /\ Collected
  /\ Len(visited) > Len(dynamoAssets)
  /\ Len(dynamoAssets) >= 2

NoSlashInNames ==
  \A i \in 1..Len(visited) : ~Contains(visited[i].nodeName, "/")

\* C10 as stated: after a completed walk every asset record's modelName names
\* a model record, every asset record with a parentName has a record of that
\* name before it in the list, and only records of asset-group roots lack a
\* parentName.
C10_ParentBeforeChild ==
  Collected =>
    \A i \in 1..Len(dynamoAssets) :
      LET r == dynamoAssets[i]
      IN  /\ r.modelName \in ModelNames
          /\ "parentName" \in DOMAIN r =>
               \E j \in 1..(i - 1) : dynamoAssets[j].assetName = r.parentName
          /\ "parentName" \notin DOMAIN r =>
               \E k \in 1..Len(visited) :
                 visited[k].depthLevel = 0 /\ PathOf(visited[k]) = r.assetName

\* C10 as amended: the parent record exists for every record with a
\* parentName, and it stands before the record whenever no node name holds
\* a '/'.
C10_ReferentialIntegrity ==
  Collected =>
    \A i \in 1..Len(dynamoAssets) :
      LET r == dynamoAssets[i]
      IN  /\ r.modelName \in ModelNames
          /\ "parentName" \in DOMAIN r =>
               \E j \in 1..Len(dynamoAssets) :
                 /\ dynamoAssets[j].assetName = r.parentName
                 /\ NoSlashInNames => j < i
          /\ "parentName" \notin DOMAIN r =>
               \E k \in 1..Len(visited) :
                 visited[k].depthLevel = 0 /\ PathOf(visited[k]) = r.assetName

\* a folder's record was overwritten by an instance of the same path and a
\* child's record names that path as its parent
C10_Witness ==
  /\ Collected
  /\ NoSlashInNames
  /\ \E i, j \in 1..Len(visited) :
       /\ i < j
       /\ PathOf(visited[i]) = PathOf(visited[j])
       /\ visited[i].nodeType = "folder"
       /\ visited[j].nodeType = "asset"
       /\ \E k \in 1..Len(dynamoAssets) :
            /\ "parentName" \in DOMAIN dynamoAssets[k]
            /\ dynamoAssets[k].parentName = PathOf(visited[i])

\* processEvent has left the walk, by an exception or with the two lists
WalkLeft ==
  pc \notin {"processBirthObjects", "generatePlaceholderModels", "processAssetTree"}

\* C1: on the two payloads of Scenario A (the types in the first, Pump1 in
\* the second) the run yields one derived model record PumpType_D0 with the
\* single property Speed of dataType DOUBLE, and one asset record /Pump1
\* whose tags are exactly Speed at /Tag Providers/default/Pumps/P1/Speed.
C1_ScenarioASplit ==
  (birthData = ScenarioA /\ WalkLeft) =>
    /\ Collected
    /\ Len(dynamoModels) = hierarchyMaxDepth + 1
    /\ LET m == dynamoModels[hierarchyMaxDepth + 1]
       IN  /\ m.assetModelName = "PumpType_D0"
           /\ Len(m.assetModelProperties) = 1
           /\ m.assetModelProperties[1].name = "Speed"
           /\ m.assetModelProperties[1].dataType = "DOUBLE"
    /\ Len(dynamoAssets) = 1
    /\ dynamoAssets[1].assetName = "/Pump1"
    /\ dynamoAssets[1].tags =
         <<[tagName |-> "Speed",
            tagPath |-> "/Tag Providers/default/Pumps/P1/Speed"]>>

\* the tag path C9 describes: parameters substituted, second ';' segment,
\* and only the leading s=[provider] replaced by the alias prefix
ClaimedTagPath(template, parameters) ==
  LET segment == SplitSecond(Format(template, parameters).val).val
      close == IndexFrom(segment, "]", 5)
  IN  IF Len(segment) >= 5 /\ SubSeq(segment, 1, 3) = "s=[" /\ close # 0
      THEN tagAliasPrefix \o "/" \o SubSeq(segment, close + 1, Len(segment))
      ELSE segment

\* C9: after a completed walk, the record of an instance that carries
\* parameters and whose model has properties has one tag per property, in
\* order, named as the property, its path being the property's template with
\* the parameters substituted, cut to its second ';' segment, with only the
\* leading s=[provider] replaced by '/Tag Providers/default/'; every other
\* record has no tags.
C9_TagPerProperty ==
  Collected =>
    \A i \in 1..Len(dynamoAssets) :
      LET r == dynamoAssets[i]
          v == LastVisit(r.assetName)
          props == dynamoModels[CHOOSE k \in 1..Len(dynamoModels) :
                     dynamoModels[k].assetModelName = r.modelName].assetModelProperties
      IN  IF "parameters" \in DOMAIN v.nodeValue /\ props # <<>>
          THEN /\ Len(r.tags) = Len(props)
               /\ \A k \in 1..Len(props) :
                    /\ r.tags[k].tagName = props[k].name
                    /\ r.tags[k].tagPath =
                         ClaimedTagPath(modelPropertyMap[r.modelName][props[k].name],
                                        v.nodeValue.parameters)
          ELSE r.tags = <<>>

\* the record the i-th put_item call of the run was made with, and the table
\* it went to
PutRecord(i) ==
  IF i <= Len(dynamoModels) THEN dynamoModels[i]
  ELSE dynamoAssets[i - Len(dynamoModels)]

PutTable(i) == IF i <= Len(dynamoModels) THEN assetModelTable ELSE assetTable

PutKey(i) ==
  IF i <= Len(dynamoModels) THEN dynamoModels[i].assetModelName
  ELSE dynamoAssets[i - Len(dynamoModels)].assetName

\* the records stored before the i-th call are in their tables
StoredKept(i) ==
  \A j \in 1..(i - 1) :
    putLog[j].outcome = "stored" =>
      /\ PutKey(j) \in DOMAIN PutTable(j)
      /\ PutTable(j)[PutKey(j)] = PutRecord(j)

C6_ConflictsDoNotAbort ==
  /\ \A i \in 1..Len(putLog) :
       LET e == putLog[i]
       IN  /\ i <= Len(dynamoModels) + Len(dynamoAssets)
           /\ e.key = PutKey(i)
           /\ e.table = (IF i <= Len(dynamoModels) THEN "assetModelTable"
                         ELSE "assetTable")
           /\ e.outcome # "ClientError" =>
                IF e.found # <<>>
                THEN /\ e.outcome = "ConditionalCheckFailedException"
                     /\ PutTable(i)[e.key] = e.found[1]
                ELSE /\ e.outcome = "stored"
                     /\ PutTable(i)[e.key] = PutRecord(i)
           /\ e.outcome = "ConditionalCheckFailedException" =>
                /\ raised = "None"
                /\ caught = "None" \/ i < Len(putLog)
  /\ (Collected /\ caught = "None") =>
       /\ raised = "None"
       /\ pc = "createModels" => Len(putLog) = idx - 1
       /\ pc = "createAssets" => Len(putLog) = Len(dynamoModels) + idx - 1
       /\ pc = "returned" => Len(putLog) = Len(dynamoModels) + Len(dynamoAssets)

\* a run that returned normally after a conflict on the asset table followed
\* by a record that was stored
C6_Witness ==
  /\ pc = "returned"
  /\ caught = "None"
  /\ \E i, j \in 1..Len(putLog) :
       /\ i < j
       /\ putLog[i].table = "assetTable"
       /\ putLog[i].outcome = "ConditionalCheckFailedException"
       /\ putLog[j].outcome = "stored"

TableEq(a, b) == DOMAIN a = DOMAIN b /\ \A k \in DOMAIN a : a[k] = b[k]

\* no put_item call was made and the tables are as before the delivery
NoRecordWritten ==
  /\ putLog = <<>>
  /\ \E tables \in InitialTables :
       /\ TableEq(assetModelTable, tables.models)
       /\ TableEq(assetTable, tables.assets)

\* the calls of processAssetTree a complete walk of the nodes makes
RECURSIVE WalkFrames(_, _, _)
WalkFrames(nodes, depthLevel, parentPath) ==
  IF nodes = <<>> THEN <<>>
  ELSE LET node == Head(nodes)
       IN  <<[nodeValue |-> node, depthLevel |-> depthLevel,
              parentPath |-> parentPath]>>
           \o (IF node.tagType # "UdtInstance" /\ "tags" \in DOMAIN node
               THEN WalkFrames(node.tags, depthLevel + 1,
                               parentPath \o "/" \o node.name)
               ELSE <<>>)
           \o WalkFrames(Tail(nodes), depthLevel, parentPath)

\* the names between braces in a template
Placeholders(template) ==
  {SubSeq(template, i + 1, IndexFrom(template, "}", i + 1) - 1) :
     i \in {k \in 1..Len(template) :
              Char(template, k) = "{" /\ IndexFrom(template, "}", k + 1) # 0}}

\* the fatal conditions of C7 on a node of the walk
FatalFrame(frame) ==
  LET node == frame.nodeValue
  IN  IF node.tagType = "UdtInstance"
      THEN \/ node.typeId \notin DOMAIN models
           \/ /\ "parameters" \in DOMAIN node
              /\ \E k \in 1..Len(models[node.typeId].tags) :
                   LET metric == models[node.typeId].tags[k]
                   IN  /\ "dataType" \in DOMAIN metric
                       /\ metric.dataType # "Template"
                       /\ \E name \in Placeholders(metric.opcItemPath.binding) :
                            name \notin DOMAIN node.parameters
      ELSE frame.depthLevel >= hierarchyMaxDepth

HasFatalNode ==
  LET frames == WalkFrames(assets, 0, "")
  IN  \E i \in 1..Len(frames) : FatalFrame(frames[i])

\* C7: no record reaches a table before the walk of every root is over, and
\* a run that meets a fatal condition (merged root without 'tags', instance
\* of a type that is not in the registry, folder at a depth without
\* placeholder, template placeholder missing from the parameters) ends with
\* a raised exception and nothing written.
C7_NothingWrittenOnFatal ==
  /\ ~WalkLeft => NoRecordWritten
  /\ pc = "raised" => NoRecordWritten /\ raised # "None"
  /\ (pc # "processBirthObjects" /\ "tags" \notin DOMAIN rawData) => pc = "raised"
  /\ (WalkLeft /\ "tags" \in DOMAIN rawData /\ HasFatalNode) => pc = "raised"

\* the walk failed on a folder below the placeholders after earlier nodes
\* had been normalized
C7_Witness ==
  /\ pc = "raised"
  /\ visited # <<>>
  /\ \E i \in 1..Len(visited) : visited[i].nodeType = "asset"
  /\ stack # <<>>
  /\ Head(stack).nodeValue.tagType = "Folder"
  /\ Head(stack).depthLevel >= hierarchyMaxDepth
  /\ NoRecordWritten

\* C4 as stated: a second delivery of the same batch ends with the same two
\* collections and with both tables as the first delivery left them, no
\* write of it storing a record.
C4_RedeliveryKeepsTables ==
  (run = 2 /\ pc \in {"returned", "raised"}) =>
    /\ dynamoModels = delivered[1].dynamoModels
    /\ dynamoAssets = delivered[1].dynamoAssets
    /\ TableEq(assetModelTable, delivered[1].assetModelTable)
    /\ TableEq(assetTable, delivered[1].assetTable)
    /\ \A i \in 1..Len(putLog) : putLog[i].outcome # "stored"

\* C4 as amended: when the first delivery met no destination failure, every
\* later delivery of the same batch computes the same two collections and
\* ends as the first did, no write of it stores anything, the tables stay as
\* the first delivery left them, and a later delivery that meets no
\* destination failure either has all its writes meet the conflict.
C4_RedeliveryAfterCompleteRun ==
  (run >= 2 /\ delivered[1].caught = "None") =>
    /\ TableEq(assetModelTable, delivered[1].assetModelTable)
    /\ TableEq(assetTable, delivered[1].assetTable)
    /\ \A i \in 1..Len(putLog) : putLog[i].outcome # "stored"
    /\ Collected =>
         /\ dynamoModels = delivered[1].dynamoModels
         /\ dynamoAssets = delivered[1].dynamoAssets
    /\ pc \in {"returned", "raised"} =>
         /\ raised = delivered[1].raised
         /\ caught = "None" =>
              /\ pc = delivered[1].pc
              /\ pc = "returned" =>
                   /\ Len(putLog) = Len(dynamoModels) + Len(dynamoAssets)
                   /\ \A i \in 1..Len(putLog) :
                        putLog[i].outcome = "ConditionalCheckFailedException"

\* the second delivery has returned after a first one that stored records
\* next to items of an earlier load
C4_Witness ==
  /\ run = 2
  /\ pc = "returned"
  /\ caught = "None"
  /\ delivered[1].caught = "None"
  /\ Len(putLog) > hierarchyMaxDepth
  /\ \E k \in DOMAIN assetTable : assetTable[k].change = "NO"
  /\ \E k \in DOMAIN assetTable : assetTable[k].change = "YES"

====
